---- MODULE Spec2Model ----
(***************************************************************************)
(* Union-Find (Disjoint Set Union) as implemented in                       *)
(* src/UnionFind/UnionFind.cpp and in the C++ listings of the Union-Find   *)
(* guide (src/unnamed/part_000).                                           *)
(*                                                                         *)
(* Three classes are modelled; `variant` says which one an instance is:    *)
(*   "cpp"      class UnionFind of UnionFind.cpp: parent, rank, and a      *)
(*              caller-supplied size vector; unionSets, unionSets with a   *)
(*              byRank flag, unionBySize, find, connected                  *)
(*   "rank"     the guide's optimized class: parent, rank, components;     *)
(*              find, unite, connected, getComponents, getSetSize          *)
(*   "size"     the guide's union-by-size class: parent, size, components; *)
(*              find, unite, getSetSize, getComponents                     *)
(*   "hasCycle" the guide's hasCycle(n, edges): a local "rank" instance    *)
(*              driven by the loop over the edge list                      *)
(*   "redundant" the guide's findRedundantConnection(edges), likewise      *)
(*   "list"     no instance at all: main() of                              *)
(*              src/LinkedList/CycleDetection.cpp running detectCycle,     *)
(*              straightforwardDetectCycle, removeCycle and print on a     *)
(*              linked list                                                *)
(***************************************************************************)
EXTENDS Integers, Sequences, FiniteSets, TLC

VARIABLES
    variant,     \* which class this instance is
    n,           \* the constructor's argument
    parent,      \* vector<int> parent
    rank,        \* vector<int> rank   (<< >> where the class has none)
    size,        \* vector<int> size   (<< >> where the class has none)
    components,  \* int components     (<< >> where the class has none)
    last,        \* the last call: [op, val, ok, wrote]: its name, the int or
                 \* the bool it returned, and whether it changed parent
    cls,         \* ghost: least element related to i by the Union calls so far
    merges,      \* ghost: number of Union calls that merged two sets
    edges,       \* hasCycle: the edge list argument
    idx,         \* hasCycle: position of the range-for loop (1-based)
    result,      \* hasCycle: "running", or the returned bool as "true"/"false"
    outcome,     \* how the last call ended: "returned"; or, for a call given
                 \* an id outside [0, n), "crashed" or "undefined"
    head,        \* CycleDetection.cpp: main's head (0 is nullptr)
    next,        \* the next field of every Node (0 is nullptr)
    pc,          \* where main is
    slow,        \* the locals of the function main is in
    fast,
    temp,
    visited,
    out          \* what has been written to cout, one record per line or item

\* The union-find part of the state and the linked-list part.
ufvars == <<variant, n, parent, rank, size, components, last, cls, merges,
            edges, idx, result, outcome>>

listvars == <<head, next, pc, slow, fast, temp, visited, out>>

vars == <<ufvars, listvars>>

\* Largest universe of an instance of the guide's classes.
MaxN == 4
\* Largest universe of an instance of the class of UnionFind.cpp.
MaxNCpp == 3
\* Largest vertex count and edge-list length given to hasCycle.
MaxV == 3
MaxEdges == 3

Elems(k) == 0 .. (k - 1)

Absent == << >>

----------------------------------------------------------------------------
\* Specification-level notions (they read a parent vector, never write it).

RECURSIVE RootF(_, _, _)
RootF(p, x, fuel) ==
    IF p[x] = x \/ fuel = 0 THEN x ELSE RootF(p, p[x], fuel - 1)

\* The element reached from x by following parent pointers.
Root(p, x) == RootF(p, x, Cardinality(DOMAIN p))

\* The elements sharing x's root.
SetOf(p, x) == {z \in DOMAIN p : Root(p, z) = Root(p, x)}

Min2(a, b) == IF a < b THEN a ELSE b

\* The ghost relation after one more pair (x, y) has been passed to Union.
Relate(c, x, y) ==
    [i \in DOMAIN c |->
        IF c[i] = c[x] \/ c[i] = c[y] THEN Min2(c[x], c[y]) ELSE c[i]]

----------------------------------------------------------------------------
\* The classes' methods, as functions from the object's fields to the new
\* fields and the returned value.

\* Mutant: the constructor without its loop (resize leaves parent all 0).
ConstructCppNoLoop(k) ==
    [parent |-> [i \in Elems(k) |-> 0],
     rank |-> [i \in Elems(k) |-> 0],
     size |-> [i \in Elems(k) |-> 1],
     components |-> Absent]

\* UnionFind(int n), UnionFind.cpp; the size vector is the caller's, all 1s.
ConstructCpp(k) ==
    [parent |-> [i \in Elems(k) |-> i],
     rank |-> [i \in Elems(k) |-> 0],
     size |-> [i \in Elems(k) |-> 1],
     components |-> Absent]

\* UnionFind(int n), the guide's optimized class.
ConstructRank(k) ==
    [parent |-> [i \in Elems(k) |-> i],
     rank |-> [i \in Elems(k) |-> 0],
     size |-> Absent,
     components |-> k]

\* UnionFind(int n), the guide's union-by-size class.
ConstructSize(k) ==
    [parent |-> [i \in Elems(k) |-> i],
     rank |-> Absent,
     size |-> [i \in Elems(k) |-> 1],
     components |-> k]

\* Mutant: find without the write to parent[u].
RECURSIVE findNoCompression(_, _)
findNoCompression(p, u) ==
    IF p[u] # u
    THEN LET r == findNoCompression(p, p[u])
         IN  [parent |-> r.parent, ret |-> r.ret]
    ELSE [parent |-> p, ret |-> p[u]]

\* Mutant: the compression links the root back to u.
RECURSIVE findLinksRootBack(_, _)
findLinksRootBack(p, u) ==
    IF p[u] # u
    THEN LET r == findLinksRootBack(p, p[u])
         IN  [parent |-> [r.parent EXCEPT ![r.ret] = u], ret |-> r.ret]
    ELSE [parent |-> p, ret |-> p[u]]

\* Mutant: the compression writes parent[u] = u.
RECURSIVE findDetaches(_, _)
findDetaches(p, u) ==
    IF p[u] # u
    THEN LET r == findDetaches(p, p[u])
         IN  [parent |-> [r.parent EXCEPT ![u] = u], ret |-> r.ret]
    ELSE [parent |-> p, ret |-> p[u]]

\* int find(int u): recursive, with path compression.
RECURSIVE find(_, _)
find(p, u) ==
    IF p[u] # u
    THEN LET r == find(p, p[u])
         IN  [parent |-> [r.parent EXCEPT ![u] = r.ret], ret |-> r.ret]
    ELSE [parent |-> p, ret |-> p[u]]

\* The arguments of the nested calls that find(u) makes, in call order, the
\* first being u; cut off after fuel calls.  (The write to parent[u] comes
\* after the nested call has returned, so every call of the nest reads the
\* parent vector as it was when find(u) was called.)
RECURSIVE findCalls(_, _, _)
findCalls(p, u, fuel) ==
    IF fuel = 0 THEN << >>
    ELSE IF p[u] # u THEN <<u>> \o findCalls(p, p[u], fuel - 1)
    ELSE <<u>>

\* bool connected(int u, int v)
connected(p, u, v) ==
    LET f1 == find(p, u)
        f2 == find(f1.parent, v)
    IN  [parent |-> f2.parent, ret |-> (f1.ret = f2.ret)]

\* Mutant: the equal-rank branch indexes parent by rank[rootV].
unionSetsIndexByRank(s, u, v) ==
    LET f1 == find(s.parent, u)
        f2 == find(f1.parent, v)
        rootU == f1.ret
        rootV == f2.ret
        p == f2.parent
    IN  IF rootU # rootV
        THEN IF s.rank[rootU] < s.rank[rootV]
             THEN [s EXCEPT !.parent = [p EXCEPT ![rootU] = rootV]]
             ELSE IF s.rank[rootU] > s.rank[rootV]
             THEN [s EXCEPT !.parent = [p EXCEPT ![rootV] = rootU]]
             ELSE [s EXCEPT !.parent = [p EXCEPT ![s.rank[rootV]] = rootU],
                            !.rank = [s.rank EXCEPT ![rootU] = @ + 1]]
        ELSE [s EXCEPT !.parent = p]

\* Mutant: rank[rootU]++ whenever rootV is attached under rootU.
unionSetsAlwaysBumps(s, u, v) ==
    LET f1 == find(s.parent, u)
        f2 == find(f1.parent, v)
        rootU == f1.ret
        rootV == f2.ret
        p == f2.parent
    IN  IF rootU # rootV
        THEN IF s.rank[rootU] < s.rank[rootV]
             THEN [s EXCEPT !.parent = [p EXCEPT ![rootU] = rootV]]
             ELSE [s EXCEPT !.parent = [p EXCEPT ![rootV] = rootU],
                            !.rank = [s.rank EXCEPT ![rootU] = @ + 1]]
        ELSE [s EXCEPT !.parent = p]

\* void unionSets(int u, int v): union by rank.
unionSets(s, u, v) ==
    LET f1 == find(s.parent, u)
        f2 == find(f1.parent, v)
        rootU == f1.ret
        rootV == f2.ret
        p == f2.parent
    IN  IF rootU # rootV
        THEN IF s.rank[rootU] < s.rank[rootV]
             THEN [s EXCEPT !.parent = [p EXCEPT ![rootU] = rootV]]
             ELSE IF s.rank[rootU] > s.rank[rootV]
             THEN [s EXCEPT !.parent = [p EXCEPT ![rootV] = rootU]]
             ELSE [s EXCEPT !.parent = [p EXCEPT ![rootV] = rootU],
                            !.rank = [s.rank EXCEPT ![rootU] = @ + 1]]
        ELSE [s EXCEPT !.parent = p]

\* Mutant: links v itself, not v's root, under rootU.
unionSimpleLinksV(s, u, v) ==
    LET f1 == find(s.parent, u)
        f2 == find(f1.parent, v)
        rootU == f1.ret
        rootV == f2.ret
        p == f2.parent
    IN  IF rootU # rootV
        THEN [s EXCEPT !.parent = [p EXCEPT ![v] = rootU]]
        ELSE [s EXCEPT !.parent = p]

\* The byRank == false branch of unionSets(int u, int v, bool byRank).
unionSimple(s, u, v) ==
    LET f1 == find(s.parent, u)
        f2 == find(f1.parent, v)
        rootU == f1.ret
        rootV == f2.ret
        p == f2.parent
    IN  IF rootU # rootV
        THEN [s EXCEPT !.parent = [p EXCEPT ![rootV] = rootU]]
        ELSE [s EXCEPT !.parent = p]

\* void unionSets(int u, int v, bool byRank)
unionSetsFlag(s, u, v, byRank) ==
    IF byRank THEN unionSets(s, u, v) ELSE unionSimple(s, u, v)

\* Mutant: links the argument, not its root, under the other root.
unionBySizeLinksArg(s, u, v) ==
    LET f1 == find(s.parent, u)
        f2 == find(f1.parent, v)
        rootU == f1.ret
        rootV == f2.ret
        p == f2.parent
    IN  IF rootU # rootV
        THEN IF s.size[rootU] < s.size[rootV]
             THEN [s EXCEPT !.parent = [p EXCEPT ![u] = rootV],
                            !.size = [s.size EXCEPT
                                         ![rootV] = @ + s.size[rootU]]]
             ELSE [s EXCEPT !.parent = [p EXCEPT ![v] = rootU],
                            !.size = [s.size EXCEPT
                                         ![rootU] = @ + s.size[rootV]]]
        ELSE [s EXCEPT !.parent = p]

\* Mutant: no find; links v under u whatever their roots are.
unionBySizeNoFind(s, u, v) ==
    IF u # v
    THEN [s EXCEPT !.parent = [s.parent EXCEPT ![v] = u],
                   !.size = [s.size EXCEPT ![u] = @ + s.size[v]]]
    ELSE s

\* void unionBySize(int u, int v, vector<int>& size)
unionBySize(s, u, v) ==
    LET f1 == find(s.parent, u)
        f2 == find(f1.parent, v)
        rootU == f1.ret
        rootV == f2.ret
        p == f2.parent
    IN  IF rootU # rootV
        THEN IF s.size[rootU] < s.size[rootV]
             THEN [s EXCEPT !.parent = [p EXCEPT ![rootU] = rootV],
                            !.size = [s.size EXCEPT
                                         ![rootV] = @ + s.size[rootU]]]
             ELSE [s EXCEPT !.parent = [p EXCEPT ![rootV] = rootU],
                            !.size = [s.size EXCEPT
                                         ![rootU] = @ + s.size[rootV]]]
        ELSE [s EXCEPT !.parent = p]

\* Mutant: components-- before the rootX == rootY test.
uniteCountsFirst(s, x, y) ==
    LET f1 == find(s.parent, x)
        f2 == find(f1.parent, y)
        rootX == f1.ret
        rootY == f2.ret
        p == f2.parent
        c == [s EXCEPT !.components = @ - 1]
    IN  IF rootX = rootY
        THEN [st |-> [c EXCEPT !.parent = p], ret |-> FALSE]
        ELSE LET t == IF s.rank[rootX] < s.rank[rootY]
                      THEN [c EXCEPT !.parent = [p EXCEPT ![rootX] = rootY]]
                      ELSE IF s.rank[rootX] > s.rank[rootY]
                      THEN [c EXCEPT !.parent = [p EXCEPT ![rootY] = rootX]]
                      ELSE [c EXCEPT
                               !.parent = [p EXCEPT ![rootY] = rootX],
                               !.rank = [s.rank EXCEPT ![rootX] = @ + 1]]
             IN  [st |-> t, ret |-> TRUE]

\* Mutant: the equal-rank branch increments the rank of the attached root.
uniteBumpsChild(s, x, y) ==
    LET f1 == find(s.parent, x)
        f2 == find(f1.parent, y)
        rootX == f1.ret
        rootY == f2.ret
        p == f2.parent
    IN  IF rootX = rootY
        THEN [st |-> [s EXCEPT !.parent = p], ret |-> FALSE]
        ELSE LET t == IF s.rank[rootX] < s.rank[rootY]
                      THEN [s EXCEPT !.parent = [p EXCEPT ![rootX] = rootY]]
                      ELSE IF s.rank[rootX] > s.rank[rootY]
                      THEN [s EXCEPT !.parent = [p EXCEPT ![rootY] = rootX]]
                      ELSE [s EXCEPT
                               !.parent = [p EXCEPT ![rootY] = rootX],
                               !.rank = [s.rank EXCEPT ![rootY] = @ + 1]]
             IN  [st |-> [t EXCEPT !.components = @ - 1], ret |-> TRUE]

\* bool unite(int x, int y) of the guide's optimized class: union by rank.
unite(s, x, y) ==
    LET f1 == find(s.parent, x)
        f2 == find(f1.parent, y)
        rootX == f1.ret
        rootY == f2.ret
        p == f2.parent
    IN  IF rootX = rootY
        THEN [st |-> [s EXCEPT !.parent = p], ret |-> FALSE]
        ELSE LET t == IF s.rank[rootX] < s.rank[rootY]
                      THEN [s EXCEPT !.parent = [p EXCEPT ![rootX] = rootY]]
                      ELSE IF s.rank[rootX] > s.rank[rootY]
                      THEN [s EXCEPT !.parent = [p EXCEPT ![rootY] = rootX]]
                      ELSE [s EXCEPT
                               !.parent = [p EXCEPT ![rootY] = rootX],
                               !.rank = [s.rank EXCEPT ![rootX] = @ + 1]]
             IN  [st |-> [t EXCEPT !.components = @ - 1], ret |-> TRUE]

\* Mutant: the first branch accumulates into the root that was attached.
uniteBySizeAddsToChild(s, x, y) ==
    LET f1 == find(s.parent, x)
        f2 == find(f1.parent, y)
        rootX == f1.ret
        rootY == f2.ret
        p == f2.parent
    IN  IF rootX = rootY
        THEN [st |-> [s EXCEPT !.parent = p], ret |-> FALSE]
        ELSE LET t == IF s.size[rootX] < s.size[rootY]
                      THEN [s EXCEPT
                               !.parent = [p EXCEPT ![rootX] = rootY],
                               !.size = [s.size EXCEPT
                                            ![rootX] = @ + s.size[rootY]]]
                      ELSE [s EXCEPT
                               !.parent = [p EXCEPT ![rootY] = rootX],
                               !.size = [s.size EXCEPT
                                            ![rootX] = @ + s.size[rootY]]]
             IN  [st |-> [t EXCEPT !.components = @ - 1], ret |-> TRUE]

\* Mutant: unite without components--.
uniteBySizeNoCount(s, x, y) ==
    LET f1 == find(s.parent, x)
        f2 == find(f1.parent, y)
        rootX == f1.ret
        rootY == f2.ret
        p == f2.parent
    IN  IF rootX = rootY
        THEN [st |-> [s EXCEPT !.parent = p], ret |-> FALSE]
        ELSE IF s.size[rootX] < s.size[rootY]
        THEN [st |-> [s EXCEPT !.parent = [p EXCEPT ![rootX] = rootY],
                               !.size = [s.size EXCEPT
                                            ![rootY] = @ + s.size[rootX]]],
              ret |-> TRUE]
        ELSE [st |-> [s EXCEPT !.parent = [p EXCEPT ![rootY] = rootX],
                               !.size = [s.size EXCEPT
                                            ![rootX] = @ + s.size[rootY]]],
              ret |-> TRUE]

\* bool unite(int x, int y) of the guide's union-by-size class.
uniteBySize(s, x, y) ==
    LET f1 == find(s.parent, x)
        f2 == find(f1.parent, y)
        rootX == f1.ret
        rootY == f2.ret
        p == f2.parent
    IN  IF rootX = rootY
        THEN [st |-> [s EXCEPT !.parent = p], ret |-> FALSE]
        ELSE LET t == IF s.size[rootX] < s.size[rootY]
                      THEN [s EXCEPT
                               !.parent = [p EXCEPT ![rootX] = rootY],
                               !.size = [s.size EXCEPT
                                            ![rootY] = @ + s.size[rootX]]]
                      ELSE [s EXCEPT
                               !.parent = [p EXCEPT ![rootY] = rootX],
                               !.size = [s.size EXCEPT
                                            ![rootX] = @ + s.size[rootY]]]
             IN  [st |-> [t EXCEPT !.components = @ - 1], ret |-> TRUE]

\* int getSetSize(int x) of the guide's optimized class: find(x), then
\* find(i) for i = 0 .. parent.size()-1, counting those equal to the root.
RECURSIVE getSetSizeLoop(_, _, _, _)
getSetSizeLoop(p, root, i, count) ==
    IF i < Cardinality(DOMAIN p)
    THEN LET f == find(p, i)
         IN  getSetSizeLoop(f.parent, root, i + 1,
                            IF f.ret = root THEN count + 1 ELSE count)
    ELSE [parent |-> p, ret |-> count]

getSetSizeScan(p, x) ==
    LET f == find(p, x) IN getSetSizeLoop(f.parent, f.ret, 0, 0)

\* int getSetSize(int x) of the guide's union-by-size class.
getSetSize(p, sz, x) ==
    LET f == find(p, x) IN [parent |-> f.parent, ret |-> sz[f.ret]]

----------------------------------------------------------------------------
\* The object, and the calls on it.

UF == [parent |-> parent, rank |-> rank, size |-> size,
       components |-> components]

SetUF(s) ==
    /\ parent' = s.parent
    /\ rank' = s.rank
    /\ size' = s.size
    /\ components' = s.components

\* val is 0 for a call that returns no int, ok FALSE for one that returns no
\* bool.
Call(op, val, ok, newParent) ==
    [op |-> op, val |-> val, ok |-> ok, wrote |-> (newParent # parent)]

EdgeLists(k) ==
    UNION {[1 .. m -> Elems(k) \X Elems(k)] : m \in 0 .. MaxEdges}

\* No linked list: the union-find classes do not have one.
NoList ==
    /\ head = 0
    /\ next = << >>
    /\ pc = "none"
    /\ slow = 0
    /\ fast = 0
    /\ temp = 0
    /\ visited = {}
    /\ out = << >>

Init ==
    /\ variant \in {"cpp", "rank", "size", "hasCycle"}
    /\ n \in 0 .. (CASE variant = "cpp" -> MaxNCpp
                     [] variant = "hasCycle" -> MaxV
                     [] OTHER -> MaxN)
    /\ LET s == CASE variant = "cpp" -> ConstructCpp(n)
                  [] variant = "size" -> ConstructSize(n)
                  [] OTHER -> ConstructRank(n)
       IN  /\ parent = s.parent
           /\ rank = s.rank
           /\ size = s.size
           /\ components = s.components
    /\ last = [op |-> "construct", val |-> 0, ok |-> FALSE, wrote |-> FALSE]
    /\ cls = [i \in Elems(n) |-> i]
    /\ merges = 0
    /\ edges \in (IF variant = "hasCycle" THEN EdgeLists(n) ELSE {<< >>})
    /\ idx = 1
    /\ result = IF variant = "hasCycle" THEN "running" ELSE "none"
    /\ outcome = "returned"
    /\ NoList

App == UNCHANGED <<variant, n, edges, idx, result, outcome, listvars>>

Find(x) ==
    /\ variant \in {"cpp", "rank", "size"}
    /\ LET f == find(parent, x)
       IN  /\ parent' = f.parent
           /\ last' = Call("find", f.ret, FALSE, f.parent)
    /\ UNCHANGED <<rank, size, components, cls, merges>>
    /\ App

Connected(x, y) ==
    /\ variant \in {"cpp", "rank"}
    /\ LET c == connected(parent, x, y)
       IN  /\ parent' = c.parent
           /\ last' = Call("connected", 0, c.ret, c.parent)
    /\ UNCHANGED <<rank, size, components, cls, merges>>
    /\ App

\* A call of one of the void union methods of UnionFind.cpp; t is the object
\* after it.
CppUnion(op, t, u, v) ==
    /\ variant = "cpp"
    /\ cls' = Relate(cls, u, v)
    /\ merges' = IF Root(parent, u) # Root(parent, v)
                 THEN merges + 1 ELSE merges
    /\ SetUF(t)
    /\ last' = Call(op, 0, FALSE, t.parent)
    /\ App

UnionSets(u, v) == CppUnion("unionSets", unionSets(UF, u, v), u, v)

UnionSetsFlag(u, v, byRank) ==
    CppUnion(IF byRank THEN "unionSetsByRank" ELSE "unionSimple",
             unionSetsFlag(UF, u, v, byRank), u, v)

UnionBySize(u, v) == CppUnion("unionBySize", unionBySize(UF, u, v), u, v)

\* A call of a bool unite method of the guide; r is what it yields.
GuideUnite(r, x, y) ==
    /\ cls' = Relate(cls, x, y)
    /\ SetUF(r.st)
    /\ last' = Call("unite", 0, r.ret, r.st.parent)
    /\ merges' = IF r.ret THEN merges + 1 ELSE merges

Unite(x, y) ==
    /\ variant = "rank"
    /\ GuideUnite(unite(UF, x, y), x, y)
    /\ App

UniteBySize(x, y) ==
    /\ variant = "size"
    /\ GuideUnite(uniteBySize(UF, x, y), x, y)
    /\ App

GetComponents ==
    /\ variant \in {"rank", "size"}
    /\ last' = Call("getComponents", components, FALSE, parent)
    /\ UNCHANGED <<parent, rank, size, components, cls, merges>>
    /\ App

GetSetSize(x) ==
    /\ variant \in {"rank", "size"}
    /\ LET g == IF variant = "rank"
                THEN getSetSizeScan(parent, x)
                ELSE getSetSize(parent, size, x)
       IN  /\ parent' = g.parent
           /\ last' = Call("getSetSize", g.ret, FALSE, g.parent)
    /\ UNCHANGED <<rank, size, components, cls, merges>>
    /\ App

\* bool hasCycle(int n, vector<vector<int>>& edges): the loop body for the
\* edge at idx.
HasCycleEdge ==
    /\ variant = "hasCycle"
    /\ result = "running"
    /\ idx <= Len(edges)
    /\ LET e == edges[idx]
           r == unite(UF, e[1], e[2])
       IN  /\ GuideUnite(r, e[1], e[2])
           /\ result' = IF r.ret THEN "running" ELSE "true"
           /\ idx' = IF r.ret THEN idx + 1 ELSE idx
    /\ UNCHANGED <<variant, n, edges, outcome, listvars>>

\* hasCycle: the return false after the loop.
HasCycleEnd ==
    /\ variant = "hasCycle"
    /\ result = "running"
    /\ idx > Len(edges)
    /\ result' = "false"
    /\ UNCHANGED <<variant, n, parent, rank, size, components, last, cls,
                   merges, edges, idx, outcome, listvars>>

FindStep == \E x \in Elems(n) : Find(x)

ConnectedStep == \E x \in Elems(n), y \in Elems(n) : Connected(x, y)

UnionSetsStep == \E u \in Elems(n), v \in Elems(n) : UnionSets(u, v)

UnionSetsFlagStep ==
    \E u \in Elems(n), v \in Elems(n), byRank \in BOOLEAN :
        UnionSetsFlag(u, v, byRank)

UnionBySizeStep == \E u \in Elems(n), v \in Elems(n) : UnionBySize(u, v)

UniteStep == \E x \in Elems(n), y \in Elems(n) : Unite(x, y)

UniteBySizeStep == \E x \in Elems(n), y \in Elems(n) : UniteBySize(x, y)

GetSetSizeStep == \E x \in Elems(n) : GetSetSize(x)

Next ==
    \/ FindStep
    \/ ConnectedStep
    \/ UnionSetsStep
    \/ UnionSetsFlagStep
    \/ UnionBySizeStep
    \/ UniteStep
    \/ UniteBySizeStep
    \/ GetComponents
    \/ GetSetSizeStep
    \/ HasCycleEdge
    \/ HasCycleEnd

Spec == Init /\ [][Next]_vars

----------------------------------------------------------------------------
\* Calls given an id outside [0, n).  Neither class checks its arguments:
\* parent[u] with u outside the vector is undefined behaviour.  The build
\* either faults at the access ("crashed") or goes on with whatever the
\* access yields ("undefined"); a value read from outside the vector is any
\* of the values drawn here, and a write outside the vector leaves the
\* vector's own elements as they are.

\* The ids a caller may pass: those of [0, k) and one on either side.
Ids(k) == -1 .. k

\* The worse of two outcomes.
Both(a, b) ==
    IF "crashed" \in {a, b} THEN "crashed"
    ELSE IF "undefined" \in {a, b} THEN "undefined"
    ELSE "returned"

\* int find(int u) for any u: the ways the call can end.  For u outside the
\* vector the read of parent[u] faults, or yields u (find returns it), or
\* yields some g in [0, n) (find(g) runs, and its result is written to
\* parent[u], outside the vector).
findUnchecked(p, u) ==
    IF u \in DOMAIN p
    THEN {[parent |-> find(p, u).parent, ret |-> find(p, u).ret,
           outcome |-> "returned"]}
    ELSE {[parent |-> p, ret |-> u, outcome |-> "crashed"],
          [parent |-> p, ret |-> u, outcome |-> "undefined"]}
         \cup {[parent |-> find(p, g).parent, ret |-> find(p, g).ret,
                 outcome |-> "undefined"] : g \in DOMAIN p}

\* int rootU = find(u); int rootV = find(v); as every union method and
\* connected begin.  A fault in find(u) ends the call before find(v).
findBoth(p, u, v) ==
    UNION {IF f1.outcome = "crashed"
           THEN {[parent |-> f1.parent, rootU |-> f1.ret, rootV |-> v,
                  outcome |-> "crashed"]}
           ELSE {[parent |-> f2.parent, rootU |-> f1.ret, rootV |-> f2.ret,
                  outcome |-> Both(f1.outcome, f2.outcome)] :
                     f2 \in findUnchecked(f1.parent, v)} :
              f1 \in findUnchecked(p, u)}

\* bool connected(int u, int v) for any u, v.
connectedUnchecked(p, u, v) ==
    {[parent |-> f.parent, ret |-> (f.rootU = f.rootV),
      outcome |-> f.outcome] : f \in findBoth(p, u, v)}

\* The part of a union method after its two finds, given what they yielded
\* (guide: it is unite of the guide's class, else unionSets of
\* UnionFind.cpp): with both roots in the vector it is the method's own
\* branch, the method applied to the two roots; with rootU != rootV and one
\* of them outside the vector, rank[rootU] < rank[rootV] reads outside the
\* vector again.
afterFinds(s, f, guide) ==
    LET t == [s EXCEPT !.parent = f.parent]
    IN  IF f.outcome = "crashed"
        THEN {[st |-> t, ok |-> FALSE, outcome |-> "crashed"]}
        ELSE IF f.rootU = f.rootV
        THEN {[st |-> t, ok |-> FALSE, outcome |-> f.outcome]}
        ELSE IF f.rootU \in DOMAIN s.parent /\ f.rootV \in DOMAIN s.parent
        THEN {[st |-> IF guide THEN unite(t, f.rootU, f.rootV).st
                               ELSE unionSets(t, f.rootU, f.rootV),
               ok |-> TRUE, outcome |-> f.outcome]}
        ELSE {[st |-> t, ok |-> FALSE, outcome |-> "crashed"],
              [st |-> t, ok |-> FALSE, outcome |-> "undefined"]}

\* void unionSets(int u, int v) of UnionFind.cpp for any u, v.
unionSetsUnchecked(s, u, v) ==
    UNION {afterFinds(s, f, FALSE) : f \in findBoth(s.parent, u, v)}

\* bool unite(int x, int y) of the guide's optimized class for any x, y.
uniteUnchecked(s, x, y) ==
    UNION {afterFinds(s, f, TRUE) : f \in findBoth(s.parent, x, y)}

\* A call with an id outside [0, n) among its arguments; r is one way it
\* can end.  Nothing is modelled of a run after such a call.
InvalidCall(r) ==
    /\ outcome = "returned"
    /\ r.outcome # "returned"
    /\ outcome' = r.outcome
    /\ UNCHANGED <<variant, n, cls, merges, edges, idx, result, listvars>>

FindInvalid(x) ==
    /\ variant \in {"cpp", "rank"}
    /\ \E f \in findUnchecked(parent, x) :
          /\ InvalidCall(f)
          /\ parent' = f.parent
          /\ last' = Call("find", 0, FALSE, f.parent)
    /\ UNCHANGED <<rank, size, components>>

ConnectedInvalid(x, y) ==
    /\ variant \in {"cpp", "rank"}
    /\ \E c \in connectedUnchecked(parent, x, y) :
          /\ InvalidCall(c)
          /\ parent' = c.parent
          /\ last' = Call("connected", 0, FALSE, c.parent)
    /\ UNCHANGED <<rank, size, components>>

UnionInvalid(x, y) ==
    /\ variant \in {"cpp", "rank"}
    /\ \E r \in (IF variant = "cpp" THEN unionSetsUnchecked(UF, x, y)
                                     ELSE uniteUnchecked(UF, x, y)) :
          /\ InvalidCall(r)
          /\ SetUF(r.st)
          /\ last' = Call(IF variant = "cpp" THEN "unionSets" ELSE "unite",
                          0, FALSE, r.st.parent)

\* The pairs of ids of which at least one is outside [0, k).
InvalidPairs(k) ==
    {xy \in Ids(k) \X Ids(k) : xy[1] \notin Elems(k) \/ xy[2] \notin Elems(k)}

FindInvalidStep == \E x \in Ids(n) \ Elems(n) : FindInvalid(x)

ConnectedInvalidStep ==
    \E xy \in InvalidPairs(n) : ConnectedInvalid(xy[1], xy[2])

UnionInvalidStep == \E xy \in InvalidPairs(n) : UnionInvalid(xy[1], xy[2])

\* The valid calls that build the states the invalid ones are made in.
ValidStep ==
    /\ outcome = "returned"
    /\ variant \in {"cpp", "rank"}
    /\ (UnionSetsFlagStep \/ UniteStep)

InitUnchecked == Init /\ variant \in {"cpp", "rank"}

NextUnchecked ==
    \/ ValidStep
    \/ FindInvalidStep
    \/ ConnectedInvalidStep
    \/ UnionInvalidStep

SpecUnchecked == InitUnchecked /\ [][NextUnchecked]_vars

----------------------------------------------------------------------------
\* findRedundantConnection(edges) of the guide: a local instance of the
\* optimized class with edges.size() + 1 elements, driven by the loop over
\* the edge list.  result is "running", "edge" (the edge at idx was
\* returned) or "empty" (the {} after the loop was returned).

\* Longest edge list given to findRedundantConnection.
MaxRedundant == 3

\* The edge lists of m edges over the nodes 1 .. m.
RedundantInputs ==
    UNION {[1 .. m -> (1 .. m) \X (1 .. m)] : m \in 0 .. MaxRedundant}

\* Mutant: the test without its negation.
findRedundantBodyNoNot(s, e) ==
    LET r == unite(s, e[1], e[2])
    IN  [st |-> r.st, united |-> r.ret, returned |-> r.ret]

\* The loop body: if (!uf.unite(edge[0], edge[1])) return edge;
\* united is what unite returned, returned whether the body returned.
findRedundantBody(s, e) ==
    LET r == unite(s, e[1], e[2])
    IN  [st |-> r.st, united |-> r.ret, returned |-> ~r.ret]

InitRedundant ==
    /\ variant = "redundant"
    /\ edges \in RedundantInputs
    /\ n = Len(edges) + 1
    /\ LET s == ConstructRank(n)
       IN  /\ parent = s.parent
           /\ rank = s.rank
           /\ size = s.size
           /\ components = s.components
    /\ last = [op |-> "construct", val |-> 0, ok |-> FALSE, wrote |-> FALSE]
    /\ cls = [i \in Elems(n) |-> i]
    /\ merges = 0
    /\ idx = 1
    /\ result = "running"
    /\ outcome = "returned"
    /\ NoList

RedundantEdge ==
    /\ variant = "redundant"
    /\ result = "running"
    /\ idx <= Len(edges)
    /\ LET e == edges[idx]
           b == findRedundantBody(UF, e)
       IN  /\ GuideUnite([st |-> b.st, ret |-> b.united], e[1], e[2])
           /\ result' = IF b.returned THEN "edge" ELSE "running"
           /\ idx' = IF b.returned THEN idx ELSE idx + 1
    /\ UNCHANGED <<variant, n, edges, outcome, listvars>>

\* The return {} after the loop.
RedundantEnd ==
    /\ variant = "redundant"
    /\ result = "running"
    /\ idx > Len(edges)
    /\ result' = "empty"
    /\ UNCHANGED <<variant, n, parent, rank, size, components, last, cls,
                   merges, edges, idx, outcome, listvars>>

NextRedundant == RedundantEdge \/ RedundantEnd

SpecRedundant == InitRedundant /\ [][NextRedundant]_vars

----------------------------------------------------------------------------
\* The class of UnionFind.cpp used through find, connected and the two
\* unionSets overloads only (no unionBySize).

InitCppRank == Init /\ variant = "cpp"

NextCppRank ==
    \/ FindStep
    \/ ConnectedStep
    \/ UnionSetsStep
    \/ UnionSetsFlagStep

SpecCppRank == InitCppRank /\ [][NextCppRank]_vars

----------------------------------------------------------------------------
\* The two classes that keep ranks, used through find, connected and the
\* unions by rank only: unionSets(u, v) and unionSets(u, v, true) of
\* UnionFind.cpp, unite(x, y) of the guide's optimized class.

InitByRank == Init /\ variant \in {"cpp", "rank"}

UnionSetsByRankStep ==
    \E u \in Elems(n), v \in Elems(n) : UnionSetsFlag(u, v, TRUE)

NextByRank ==
    \/ FindStep
    \/ ConnectedStep
    \/ UnionSetsStep
    \/ UnionSetsByRankStep
    \/ UniteStep

SpecByRank == InitByRank /\ [][NextByRank]_vars

----------------------------------------------------------------------------
\* src/LinkedList/CycleDetection.cpp: main() builds a list and calls
\* detectCycle, straightforwardDetectCycle, removeCycle and print on it.
\* Nodes are numbered 1 .. k in the order main creates them; 0 is nullptr.

\* Most nodes of a list.
MaxNodes == 4

nullptr == 0

\* main creates its i-th node as new Node(i).
data(i) == i

\* The lists of k nodes linked in the order of creation, the next of the
\* last being nullptr or any node of the list (main: fourth->next = second).
Lists ==
    UNION {{[i \in 1 .. k |-> IF i < k THEN i + 1 ELSE back] :
               back \in 0 .. k} : k \in 0 .. MaxNodes}

\* cout << msg << val << endl
Say(msg, val) == Append(out, [msg |-> msg, val |-> val])

UFIdle ==
    /\ variant = "list"
    /\ UNCHANGED ufvars

InitList ==
    /\ variant = "list"
    /\ n = 0
    /\ parent = << >>
    /\ rank = << >>
    /\ size = << >>
    /\ components = 0
    /\ last = [op |-> "none", val |-> 0, ok |-> FALSE, wrote |-> FALSE]
    /\ cls = << >>
    /\ merges = 0
    /\ edges = << >>
    /\ idx = 1
    /\ result = "none"
    /\ outcome = "returned"
    /\ next \in Lists
    /\ head = IF next = << >> THEN nullptr ELSE 1
    /\ pc = "detectCycle"
    /\ slow = head
    /\ fast = head
    /\ temp = nullptr
    /\ visited = {}
    /\ out = << >>

\* Mutant: fast = fast->next, one step like slow.
DetectCycleLoopFastByOne ==
    /\ pc = "detectCycle"
    /\ fast # nullptr /\ next[fast] # nullptr
    /\ slow' = next[slow]
    /\ fast' = next[fast]
    /\ IF slow' = fast'
       THEN /\ out' = Say("Cycle detected at node with value: ", data(slow'))
            /\ pc' = "straightforwardDetectCycle"
            /\ temp' = head
       ELSE UNCHANGED <<out, pc, temp>>
    /\ UNCHANGED <<head, next, visited>>
    /\ UFIdle

\* detectCycle: one iteration of the while loop.
DetectCycleLoop ==
    /\ pc = "detectCycle"
    /\ fast # nullptr /\ next[fast] # nullptr
    /\ slow' = next[slow]
    /\ fast' = next[next[fast]]
    /\ IF slow' = fast'
       THEN /\ out' = Say("Cycle detected at node with value: ", data(slow'))
            /\ pc' = "straightforwardDetectCycle"
            /\ temp' = head
       ELSE UNCHANGED <<out, pc, temp>>
    /\ UNCHANGED <<head, next, visited>>
    /\ UFIdle

\* detectCycle: the loop condition is false.
DetectCycleEnd ==
    /\ pc = "detectCycle"
    /\ ~(fast # nullptr /\ next[fast] # nullptr)
    /\ out' = Say("No cycle detected.", 0)
    /\ pc' = "straightforwardDetectCycle"
    /\ temp' = head
    /\ UNCHANGED <<head, next, slow, fast, visited>>
    /\ UFIdle

\* What straightforwardDetectCycle's return leaves: removeCycle is called.
CallRemoveCycle ==
    /\ pc' = "removeCycle"
    /\ slow' = head
    /\ fast' = head

\* straightforwardDetectCycle: one iteration of the while loop.
StraightforwardLoop ==
    /\ pc = "straightforwardDetectCycle"
    /\ temp # nullptr
    /\ IF temp \in visited
       THEN /\ out' = Say("Cycle detected at node with value: ", data(temp))
            /\ CallRemoveCycle
            /\ UNCHANGED <<temp, visited>>
       ELSE /\ visited' = visited \cup {temp}
            /\ temp' = next[temp]
            /\ UNCHANGED <<out, pc, slow, fast>>
    /\ UNCHANGED <<head, next>>
    /\ UFIdle

\* straightforwardDetectCycle: temp == nullptr.
StraightforwardEnd ==
    /\ pc = "straightforwardDetectCycle"
    /\ temp = nullptr
    /\ out' = Say("No cycle detected.", 0)
    /\ CallRemoveCycle
    /\ UNCHANGED <<head, next, temp, visited>>
    /\ UFIdle

\* What removeCycle's return leaves: print is called.
CallPrint ==
    /\ pc' = "print"
    /\ temp' = head

\* removeCycle: one iteration of the first while loop, with its break.
RemoveCycleDetect ==
    /\ pc = "removeCycle"
    /\ fast # nullptr /\ next[fast] # nullptr
    /\ slow' = next[slow]
    /\ fast' = next[next[fast]]
    /\ pc' = IF slow' = fast' THEN "removeCycleIf" ELSE "removeCycle"
    /\ UNCHANGED <<head, next, temp, visited, out>>
    /\ UFIdle

\* removeCycle: the condition of the first loop is false.
RemoveCycleDetectEnd ==
    /\ pc = "removeCycle"
    /\ ~(fast # nullptr /\ next[fast] # nullptr)
    /\ pc' = "removeCycleIf"
    /\ UNCHANGED <<head, next, slow, fast, temp, visited, out>>
    /\ UFIdle

\* removeCycle: if (slow == fast) { slow = head; ... }, else return.
RemoveCycleIf ==
    /\ pc = "removeCycleIf"
    /\ IF slow = fast
       THEN /\ slow' = head
            /\ pc' = "removeCycleFind"
            /\ UNCHANGED temp
       ELSE /\ CallPrint
            /\ UNCHANGED slow
    /\ UNCHANGED <<head, next, fast, visited, out>>
    /\ UFIdle

\* removeCycle: one iteration of while (slow->next != fast->next).
RemoveCycleFind ==
    /\ pc = "removeCycleFind"
    /\ slow # nullptr /\ fast # nullptr
    /\ next[slow] # next[fast]
    /\ slow' = next[slow]
    /\ fast' = next[fast]
    /\ UNCHANGED <<head, next, pc, temp, visited, out>>
    /\ UFIdle

\* removeCycle: slow->next == fast->next; fast->next = nullptr; cout; return.
RemoveCycleCut ==
    /\ pc = "removeCycleFind"
    /\ slow # nullptr /\ fast # nullptr
    /\ next[slow] = next[fast]
    /\ next' = [next EXCEPT ![fast] = nullptr]
    /\ out' = Say("Cycle removed. Cycle started at node with value: ",
                  data(slow))
    /\ CallPrint
    /\ UNCHANGED <<head, slow, fast, visited>>
    /\ UFIdle

\* removeCycle: slow->next with slow == nullptr is undefined behaviour: the
\* build faults at the read ("crashed") or goes on in a way the source does
\* not determine ("undefined").
RemoveCycleNull ==
    /\ pc = "removeCycleFind"
    /\ slow = nullptr \/ fast = nullptr
    /\ pc' \in {"crashed", "undefined"}
    /\ UNCHANGED <<head, next, slow, fast, temp, visited, out>>
    /\ UFIdle

\* print: one iteration of the while loop.
PrintLoop ==
    /\ pc = "print"
    /\ temp # nullptr
    /\ out' = Say(" ", data(temp))
    /\ temp' = next[temp]
    /\ UNCHANGED <<head, next, pc, slow, fast, visited>>
    /\ UFIdle

\* print: temp == nullptr; cout << endl; main returns.
PrintEnd ==
    /\ pc = "print"
    /\ temp = nullptr
    /\ pc' = "done"
    /\ UNCHANGED <<head, next, slow, fast, temp, visited, out>>
    /\ UFIdle

NextList ==
    \/ DetectCycleLoop
    \/ DetectCycleEnd
    \/ StraightforwardLoop
    \/ StraightforwardEnd
    \/ RemoveCycleDetect
    \/ RemoveCycleDetectEnd
    \/ RemoveCycleIf
    \/ RemoveCycleFind
    \/ RemoveCycleCut
    \/ RemoveCycleNull
    \/ PrintLoop
    \/ PrintEnd

\* main runs on: a step is taken whenever one can be.
SpecList == InitList /\ [][NextList]_vars /\ WF_vars(NextList)

----------------------------------------------------------------------------
\* Properties.

HasRank == variant \in {"cpp", "rank", "hasCycle"}
HasSize == variant \in {"cpp", "size"}
HasCounter == variant \in {"rank", "size", "hasCycle"}

\* What Connected(x, y) returns in the current state.  The union-by-size
\* class of the guide has no connected method: there it is find(x) == find(y).
ConnectedNow(x, y) ==
    IF variant = "size"
    THEN find(parent, x).ret = find(parent, y).ret
    ELSE connected(parent, x, y).ret

UnionOps == {"unionSets", "unionSetsByRank", "unionSimple", "unionBySize",
             "unite"}

\* The step is hasCycle's unite call for the edge (x, y).
HasCycleCalled(x, y) ==
    /\ variant = "hasCycle"
    /\ idx <= Len(edges)
    /\ edges[idx] = <<x, y>>
    /\ HasCycleEdge

\* The step is a Union(x, y) call, by any class and policy.
UnionCalled(x, y) ==
    \/ last'.op = "unionSets" /\ UnionSets(x, y)
    \/ last'.op = "unionSetsByRank" /\ UnionSetsFlag(x, y, TRUE)
    \/ last'.op = "unionSimple" /\ UnionSetsFlag(x, y, FALSE)
    \/ last'.op = "unionBySize" /\ UnionBySize(x, y)
    \/ last'.op = "unite" /\ variant = "rank" /\ Unite(x, y)
    \/ last'.op = "unite" /\ variant = "size" /\ UniteBySize(x, y)
    \/ HasCycleCalled(x, y)

\* The step is a call of a bool unite(x, y) of the guide.
UniteCalled(x, y) ==
    \/ last'.op = "unite" /\ variant = "rank" /\ Unite(x, y)
    \/ last'.op = "unite" /\ variant = "size" /\ UniteBySize(x, y)
    \/ HasCycleCalled(x, y)

\* C1: Connected(x, y) is true exactly when x and y are related by the
\* reflexive-symmetric-transitive closure of the pairs passed to Union so
\* far (cls labels that closure's classes), under every union policy.
C1_ConnectedIsUnionClosure ==
    \A x \in Elems(n), y \in Elems(n) :
        ConnectedNow(x, y) <=> (cls[x] = cls[y])

\* C1 witness: a simple union has just merged, leaving a set of three
\* elements and a chain of two links.
C1_Witness ==
    /\ last.op = "unionSimple"
    /\ last.wrote
    /\ \E x \in Elems(n) :
          /\ Cardinality(SetOf(parent, x)) = 3
          /\ parent[x] # x
          /\ parent[parent[x]] # parent[x]

\* C2: immediately after Construct(n), every element is its own parent,
\* every rank is 0 (every size 1), ComponentCount() is n, Connected(i, i)
\* holds and Connected(i, j) does not for i # j.
C2_AfterConstruct ==
    last.op = "construct" =>
        /\ DOMAIN parent = Elems(n)
        /\ \A i \in Elems(n) : parent[i] = i
        /\ HasRank => (DOMAIN rank = Elems(n) /\ \A i \in Elems(n) : rank[i] = 0)
        /\ HasSize => (DOMAIN size = Elems(n) /\ \A i \in Elems(n) : size[i] = 1)
        /\ HasCounter => components = n
        /\ \A i \in Elems(n), j \in Elems(n) : ConnectedNow(i, j) <=> (i = j)

\* C2 witness: a freshly constructed UnionFind.cpp object of three elements.
C2_Witness ==
    /\ last.op = "construct"
    /\ variant = "cpp"
    /\ n = 3

\* The class labels after the first m edges of es, from the labels c.
RECURSIVE ClsAfter(_, _, _)
ClsAfter(c, es, m) ==
    IF m = 0 THEN c
    ELSE LET b == ClsAfter(c, es, m - 1)
         IN  Relate(b, es[m][1], es[m][2])

\* Some edge of es joins two vertices already connected by earlier edges.
SomeEdgeCloses(k, es) ==
    \E m \in 1 .. Len(es) :
        LET b == ClsAfter([i \in Elems(k) |-> i], es, m - 1)
        IN  b[es[m][1]] = b[es[m][2]]

\* The partition into sets.
Partition(p) == {SetOf(p, z) : z \in DOMAIN p}

\* (Every step that sets last.op to "unite" is a unite(x, y) call for some
\* x and y, so the second conjunct speaks of every false-returning unite.)
C3_UniteReturn ==
    last'.op = "unite" =>
        /\ \A x \in Elems(n), y \in Elems(n) :
              UniteCalled(x, y) =>
                  ((~last'.ok) <=> (Root(parent, x) = Root(parent, y)))
        /\ (~last'.ok) =>
              /\ components' = components
              /\ rank' = rank
              /\ size' = size
              /\ Partition(parent') = Partition(parent)

C3_HasCycleVerdict ==
    (variant = "hasCycle" /\ result # "running") =>
        ((result = "true") <=> SomeEdgeCloses(n, edges))

\* C3: unite(x, y) returns false exactly when x and y were in the same set
\* before the call; a false-returning unite leaves the component counter,
\* the rank/size arrays and the partition as they were; and hasCycle returns
\* true iff some edge joins two vertices already connected by earlier edges.
C3_UnionReturnsFalseIffSameSet ==
    [][C3_UniteReturn]_vars /\ []C3_HasCycleVerdict

\* C3 witness: hasCycle has returned true on its third edge.
C3_Witness ==
    /\ variant = "hasCycle"
    /\ result = "true"
    /\ idx = 3
    /\ last.op = "unite"
    /\ ~last.ok

\* C4: ComponentCount() is the number of roots, and is n minus the number
\* of Union calls that merged.
C4_ComponentCount ==
    HasCounter =>
        /\ components = Cardinality({i \in Elems(n) : parent[i] = i})
        /\ components = n - merges

\* C4 witness: a unite has just returned false after two merging ones.
C4_Witness ==
    /\ variant = "size"
    /\ last.op = "unite"
    /\ ~last.ok
    /\ merges = 2
    /\ components = n - 2

\* The k-th parent of i.
RECURSIVE Ancestor(_, _, _)
Ancestor(p, i, k) == IF k = 0 THEN i ELSE Ancestor(p, p[i], k - 1)

\* C5: the parent mapping is a forest: every parent[i] is in [0, n), and
\* from every element a root is reached in at most n-1 steps.
C5_ParentIsForest ==
    /\ DOMAIN parent = Elems(n)
    /\ \A i \in Elems(n) : parent[i] \in Elems(n)
    /\ \A i \in Elems(n) :
          \E k \in 0 .. (n - 1) :
              LET a == Ancestor(parent, i, k) IN parent[a] = a

\* C5 witness: a tree of height two built by unionBySize.
C5_Witness ==
    /\ variant = "cpp"
    /\ last.op = "unionBySize"
    /\ last.wrote
    /\ \E x \in Elems(n) : parent[x] # x /\ parent[parent[x]] # parent[x]

\* The step is a Find(x) call.
FindCalled(x) == last'.op = "find" /\ Find(x)

\* The step is a Connected(x, y) call.
ConnectedCalled(x, y) == last'.op = "connected" /\ Connected(x, y)

C6_Step ==
    last'.op \in {"find", "connected"} =>
        /\ ((\E x \in Elems(n) : FindCalled(x))
              \/ (\E x \in Elems(n), y \in Elems(n) : ConnectedCalled(x, y)))
           => \A z \in Elems(n) : Root(parent', z) = Root(parent, z)
        /\ \A x \in Elems(n) :
              FindCalled(x) => find(parent', x).ret = last'.val

\* C6: Find(x) and Connected(x, y) leave the root of every element z as it
\* was, and a second Find(x) returns what the first returned.
C6_FindKeepsRoots == [][C6_Step]_vars

\* C6 witness: a find has just compressed a path.
C6_Witness ==
    /\ last.op = "find"
    /\ last.wrote
    /\ \E z \in Elems(n) : z # last.val /\ parent[z] = last.val

\* The step left what Find(x) returns and the membership of x's set as
\* they were.
Kept(x) ==
    /\ find(parent', x).ret = find(parent, x).ret
    /\ SetOf(parent', x) = SetOf(parent, x)

\* (A step that leaves parent as it was keeps every element; and when the
\* step kept every element there is nothing left to show for any pair of
\* arguments.)
C7_Step ==
    (last'.op \in UnionOps /\ parent' # parent) =>
        \/ \A x \in Elems(n) : Kept(x)
        \/ \A a \in Elems(n), b \in Elems(n) :
              UnionCalled(a, b) =>
                  \A x \in Elems(n) :
                      \/ Root(parent, x) = Root(parent, a)
                      \/ Root(parent, x) = Root(parent, b)
                      \/ Kept(x)

\* C7: a Union(a, b) with neither a nor b in x's set leaves what Find(x)
\* returns and the membership of x's set as they were (so does any sequence
\* of such calls).
C7_UnionLeavesOtherSets == [][C7_Step]_vars

\* C7 witness: the second of two merges has just made a second pair, the
\* first pair being a set the call did not involve.
C7_Witness ==
    /\ last.op = "unite"
    /\ last.ok
    /\ merges = 2
    /\ n = 4
    /\ \A x \in Elems(n) : Cardinality(SetOf(parent, x)) = 2

\* The step is a unite(x, y) call of the guide's union-by-size class.
UniteBySizeCalled(x, y) == last'.op = "unite" /\ UniteBySize(x, y)

\* The step is a unionBySize(u, v, size) call of UnionFind.cpp.
UnionBySizeCalled(u, v) == last'.op = "unionBySize" /\ UnionBySize(u, v)

C8_OriginalStep ==
    (variant = "size" /\ last'.op = "unite") =>
        \A x \in Elems(n), y \in Elems(n) :
            UniteBySizeCalled(x, y) =>
                getSetSize(parent', size', find(parent', x).ret).ret
                    = Cardinality(SetOf(parent, x))
                          + Cardinality(SetOf(parent, y))

\* C8 as stated: after every Union(x, y), SetSize(Find(x)) is the size of
\* x's set before the call plus the size of y's set before the call.
C8_SizeIsSumAfterEveryUnion == [][C8_OriginalStep]_vars

C8_AmendedStep ==
    /\ (variant = "size" /\ last'.op = "unite") =>
          \A x \in Elems(n), y \in Elems(n) :
              UniteBySizeCalled(x, y) =>
                  getSetSize(parent', size', find(parent', x).ret).ret
                      = IF Root(parent, x) # Root(parent, y)
                        THEN Cardinality(SetOf(parent, x))
                                 + Cardinality(SetOf(parent, y))
                        ELSE Cardinality(SetOf(parent, x))
    /\ last'.op = "unionBySize" =>
          \A u \in Elems(n), v \in Elems(n) :
              UnionBySizeCalled(u, v) =>
                  size'[Root(parent', u)]
                      = IF Root(parent, u) # Root(parent, v)
                        THEN size[Root(parent, u)] + size[Root(parent, v)]
                        ELSE size[Root(parent, u)]

\* C8 (amended): in the size-tracking class, after a Union(x, y) of two
\* different sets SetSize(Find(x)) is the size of x's set plus the size of
\* y's set before the call; after a Union(x, y) within one set it is the
\* size of that set.  unionBySize of UnionFind.cpp does the same with the
\* size entries of the two roots.
C8_SizeIsSumAfterMerge == [][C8_AmendedStep]_vars

\* C8 witness: a unite of the size-tracking class has just merged two sets
\* into one of four elements.
C8_Witness ==
    /\ variant = "size"
    /\ last.op = "unite"
    /\ last.ok
    /\ \E x \in Elems(n) : parent[x] = x /\ size[x] = 4

\* C9: in UnionFind.cpp, with the caller's size vector starting as all 1s,
\* size[find(x)] is the number of elements whose root is find(x).
C9_SizeIsExactCount ==
    variant = "cpp" =>
        \A x \in Elems(n) :
            size[find(parent, x).ret] = Cardinality(SetOf(parent, x))

\* (A step that leaves parent as it was leaves every root as it was.)
C10_Step ==
    parent' # parent =>
        \A x \in Elems(n), y \in Elems(n) :
            (Root(parent, x) = Root(parent, y))
                => (Root(parent', x) = Root(parent', y))

\* C10: once x and y are connected they stay connected through every later
\* Union, Find and Connected call.
C10_ConnectivityIsMonotone == [][C10_Step]_vars

\* C10 witness: a second merge has just happened, with the pair joined by
\* the first still connected.
C10_Witness ==
    /\ variant = "cpp"
    /\ last.op = "unionBySize"
    /\ merges = 2
    /\ \A x \in Elems(n), y \in Elems(n) : Root(parent, x) = Root(parent, y)

\* The step is a Find, Union or Connected call given an id outside [0, n).
InvalidIdCalled == FindInvalidStep \/ ConnectedInvalidStep \/ UnionInvalidStep

C11_Step ==
    InvalidIdCalled =>
        /\ outcome' = "invalid argument"
        /\ parent' = parent
        /\ rank' = rank
        /\ size' = size
        /\ components' = components

\* C11: a Find, Union or Connected call given an element id outside [0, n)
\* ends with an "invalid argument" error and leaves parent, rank/size and
\* the component counter exactly as they were, also when only the second
\* argument is out of range and the first has an uncompressed path.
C11_InvalidIdRejected == [][C11_Step]_vars

\* The class labels of the nodes 1 .. Len(es) after the first m edges of es,
\* the edge at skip left out.
RECURSIVE ClsWithout(_, _, _)
ClsWithout(es, m, skip) ==
    IF m = 0 THEN [i \in 1 .. Len(es) |-> i]
    ELSE LET b == ClsWithout(es, m - 1, skip)
         IN  IF m = skip THEN b ELSE Relate(b, es[m][1], es[m][2])

\* The graph of es on the nodes 1 .. Len(es), the edge at skip left out (0:
\* none), is connected.
ConnectedWithout(es, skip) ==
    LET b == ClsWithout(es, Len(es), skip)
    IN  \A i \in 1 .. Len(es) : b[i] = 1

\* es is a tree on the nodes 1 .. Len(es) plus one more edge: Len(es) edges
\* that connect Len(es) nodes.
TreePlusOne(es) == Len(es) >= 1 /\ ConnectedWithout(es, 0)

\* The edges of the one cycle of such a graph: those whose removal leaves
\* it connected.
CycleEdges(es) == {i \in 1 .. Len(es) : ConnectedWithout(es, i)}

\* The first edge of es that joins two nodes the edges before it connect.
FirstClosing(es) ==
    CHOOSE m \in 1 .. Len(es) :
        /\ LET b == ClsWithout(es, m - 1, 0) IN b[es[m][1]] = b[es[m][2]]
        /\ \A k \in 1 .. (m - 1) :
              LET b == ClsWithout(es, k - 1, 0) IN b[es[k][1]] # b[es[k][2]]

\* C12: for an edge list that is a tree on the nodes 1 .. n plus one more
\* edge, findRedundantConnection returns an edge, the first in input order
\* whose unite returns false (the first that joins two nodes already
\* connected); it is the last in input order of the edges of the cycle,
\* and the edges without it are a tree.
C12_RedundantIsLastCycleEdge ==
    (variant = "redundant" /\ result # "running" /\ TreePlusOne(edges)) =>
        /\ result = "edge"
        /\ ~last.ok
        /\ idx = FirstClosing(edges)
        /\ ConnectedWithout(edges, idx)
        /\ \A i \in CycleEdges(edges) : i <= idx

\* C12 witness: the guide's example, [[1,2],[1,3],[2,3]], has returned its
\* third edge.
C12_Witness ==
    /\ variant = "redundant"
    /\ edges = <<(<<1, 2>>), (<<1, 3>>), (<<2, 3>>)>>
    /\ result = "edge"
    /\ idx = 3

\* find(x), called with the parent vector p, returns after at most n nested
\* calls, the last on a root, and no two of them on the same node.
FindReturns(p, x) ==
    LET c == findCalls(p, x, n + 1)
    IN  /\ Len(c) <= n
        /\ p[c[Len(c)]] = c[Len(c)]
        /\ \A i \in 1 .. Len(c), j \in 1 .. Len(c) : c[i] = c[j] => i = j

\* C13: in every reachable state every Find(x) terminates, making at most n
\* nested calls and visiting no node twice; so does the second find of a
\* Union(x, y) or Connected(x, y), which runs on the vector the first left.
C13_FindTerminates ==
    /\ \A x \in Elems(n) : FindReturns(parent, x)
    /\ \A x \in Elems(n), y \in Elems(n) :
          FindReturns(find(parent, x).parent, y)

\* C13 witness: in an instance of three elements some find makes three
\* nested calls.
C13_Witness ==
    /\ n = 3
    /\ \E x \in Elems(n) : Len(findCalls(parent, x, n + 1)) = n

\* The nodes on the path from x to its root, both included.
PathOf(p, x) == {Ancestor(p, x, k) : k \in 0 .. Cardinality(DOMAIN p)}

C14_Step ==
    last'.op = "find" =>
        /\ rank' = rank
        /\ size' = size
        /\ components' = components
        /\ \A x \in Elems(n) :
              FindCalled(x) =>
                  LET r == Root(parent, x)
                  IN  /\ last'.val = r
                      /\ \A v \in Elems(n) :
                            parent'[v] = IF v \in PathOf(parent, x)
                                         THEN r ELSE parent[v]

\* C14: Find(x) returns the root r that x's parent chain led to before the
\* call; after it parent[v] = r for every node v on the path from x to r;
\* the parent of every other node, every rank and size entry and the
\* component counter are as before.
C14_PathCompression == [][C14_Step]_vars

\* C14 witness: a find in UnionFind.cpp has just rewritten a parent entry
\* and left all three elements pointing at the root it returned.
C14_Witness ==
    /\ variant = "cpp"
    /\ last.op = "find"
    /\ last.wrote
    /\ n = 3
    /\ \A z \in Elems(n) : parent[z] = last.val

\* The step is a union-by-rank call for (x, y): unionSets(x, y) or
\* unionSets(x, y, true) of UnionFind.cpp, or unite(x, y) of the guide's
\* optimized class.
RankUnionCalled(x, y) ==
    \/ last'.op = "unionSets" /\ UnionSets(x, y)
    \/ last'.op = "unionSetsByRank" /\ UnionSetsFlag(x, y, TRUE)
    \/ last'.op = "unite" /\ variant = "rank" /\ Unite(x, y)
    \/ HasCycleCalled(x, y)

\* The parent vector p after the path compression of find(x) and find(y).
Compressed(p, x, y) ==
    [v \in DOMAIN p |->
        IF v \in PathOf(p, x) THEN Root(p, x)
        ELSE IF v \in PathOf(p, y) THEN Root(p, y)
        ELSE p[v]]

\* (A call that merges two sets changes parent, so a step that leaves parent
\* as it was has nothing to show in the second conjunct.)
C15_Step ==
    /\ (HasRank /\ rank' # rank) => \A i \in Elems(n) : rank'[i] >= rank[i]
    /\ (HasRank /\ last'.op \in {"unionSets", "unionSetsByRank", "unite"}
            /\ parent' # parent) =>
          \A x \in Elems(n), y \in Elems(n) :
              (Root(parent, x) # Root(parent, y) /\ RankUnionCalled(x, y)) =>
                  LET rx == Root(parent, x)
                      ry == Root(parent, y)
                      c == Compressed(parent, x, y)
                  IN  /\ rank[rx] < rank[ry] =>
                            /\ parent' = [c EXCEPT ![rx] = ry]
                            /\ rank' = rank
                      /\ rank[rx] > rank[ry] =>
                            /\ parent' = [c EXCEPT ![ry] = rx]
                            /\ rank' = rank
                      /\ rank[rx] = rank[ry] =>
                            /\ parent' = [c EXCEPT ![ry] = rx]
                            /\ rank' = [rank EXCEPT ![rx] = rank[rx] + 1]

\* C15: when a union by rank of x and y merges roots rx # ry, the root of
\* strictly lower rank becomes a child of the other and no rank changes;
\* with equal ranks ry becomes a child of rx and rank[rx] grows by exactly
\* one.  Apart from the path compression of the two finds no other parent
\* entry changes, no other rank changes, and no call ever lowers a rank.
C15_UnionByRank == [][C15_Step]_vars

\* C15 witness: a unite has just merged two trees of rank 1 into one of
\* rank 2.
C15_Witness ==
    /\ variant = "rank"
    /\ last.op = "unite"
    /\ last.ok
    /\ \E r \in Elems(n) : parent[r] = r /\ rank[r] = 2

\* The number of parent links from x to its root.
RECURSIVE DepthF(_, _, _)
DepthF(p, x, fuel) ==
    IF p[x] = x \/ fuel = 0 THEN 0 ELSE 1 + DepthF(p, p[x], fuel - 1)

Depth(p, x) == DepthF(p, x, Cardinality(DOMAIN p))

\* C16: in every state UnionFind.cpp reaches from its constructor by find,
\* connected, unionSets(u, v) and unionSets(u, v, byRank) calls, byRank true
\* or false, the parent chain from any element to its root r has at most
\* rank[r] links.
C16_RankBoundsHeight ==
    variant = "cpp" =>
        \A x \in Elems(n) : Depth(parent, x) <= rank[Root(parent, x)]

\* C17: in every state reached by union-by-rank and find calls, a root of
\* rank r has at least 2^r elements in its set, and no rank exceeds
\* floor(log2 n), that is, 2^rank[i] <= n for every element i.
C17_RankIsLogSize ==
    /\ \A r \in Elems(n) :
          parent[r] = r => Cardinality(SetOf(parent, r)) >= 2 ^ rank[r]
    /\ \A i \in Elems(n) : 2 ^ rank[i] <= n

\* C17 witness: a root of rank 2 whose set has exactly four elements.
C17_Witness ==
    /\ variant = "rank"
    /\ \E r \in Elems(n) :
          /\ parent[r] = r
          /\ rank[r] = 2
          /\ Cardinality(SetOf(parent, r)) = 4

\* The node k next-steps from h; nullptr once nullptr is reached.
RECURSIVE Walk(_, _, _)
Walk(nx, h, k) ==
    IF k = 0 \/ h = nullptr THEN h ELSE Walk(nx, nx[h], k - 1)

\* Following next from h never reaches nullptr.
Cyclic(nx, h) == Walk(nx, h, Len(nx) + 1) # nullptr

\* The first word of the line a detection function writes for the list.
Verdict(nx, h) ==
    IF Cyclic(nx, h) THEN "Cycle detected at node with value: "
    ELSE "No cycle detected."

Detecting == pc \in {"detectCycle", "straightforwardDetectCycle"}

C18_Verdicts ==
    /\ pc = "straightforwardDetectCycle" =>
          /\ Len(out) = 1
          /\ out[1].msg = Verdict(next, head)
    /\ pc = "removeCycle" =>
          /\ Len(out) = 2
          /\ out[1].msg = Verdict(next, head)
          /\ out[2].msg = Verdict(next, head)

\* C18: detectCycle and straightforwardDetectCycle both return on every
\* list; each writes "Cycle detected" if following next from head never
\* reaches nullptr and "No cycle detected." otherwise, so they agree, also
\* on the empty list and on a single node; neither changes a next field.
C18_DetectorsAgree ==
    /\ []C18_Verdicts
    /\ [][Detecting => (next' = next /\ head' = head)]_vars
    /\ (variant = "list") => <>(~Detecting)

\* C18 witness: both functions have reported a cycle on a list of four
\* nodes whose last node points to the second, as in main.
C18_Witness ==
    /\ pc = "removeCycle"
    /\ next = <<2, 3, 4, 2>>
    /\ Len(out) = 2
    /\ out[1].msg = "Cycle detected at node with value: "
    /\ out[2].msg = "Cycle detected at node with value: "

\* The nodes reachable from h in the order a traversal first visits them.
RECURSIVE Visits(_, _, _)
Visits(nx, h, seen) ==
    IF h = nullptr \/ h \in seen THEN << >>
    ELSE <<h>> \o Visits(nx, nx[h], seen \cup {h})

FirstVisits(nx, h) == Visits(nx, h, {})

\* The last node of a list's cycle: the last node a traversal first
\* visits; its next is the first node of the cycle.
LastOfCycle(nx, h) == FirstVisits(nx, h)[Len(FirstVisits(nx, h))]

CycleStart(nx, h) == nx[LastOfCycle(nx, h)]

\* The step is removeCycle's return.
RemoveCycleReturns ==
    pc \in {"removeCycleIf", "removeCycleFind"} /\ pc' = "print"

C19_Step ==
    Cyclic(next, head) =>
        IF RemoveCycleReturns
        THEN /\ next' = [next EXCEPT ![LastOfCycle(next, head)] = nullptr]
             /\ ~Cyclic(next', head)
             /\ FirstVisits(next', head) = FirstVisits(next, head)
        ELSE next' = next

\* C19: on a list that contains a cycle, also one whose cycle starts at
\* head, removeCycle returns, and changes one pointer only: the next of the
\* last node of the cycle becomes nullptr; the list it leaves ends in
\* nullptr and visits the nodes that were reachable from head, each once,
\* in the order of their first visit.
C19_RemoveCycleCutsLastLink ==
    /\ [][C19_Step]_vars
    /\ (variant = "list" /\ Cyclic(next, head)) => <>(pc \in {"print", "done"})

C20_Step ==
    (pc = "removeCycleFind" /\ Cyclic(next, head) /\ out' # out) =>
        /\ out'[Len(out')].val = data(CycleStart(next, head))
        /\ out'[Len(out')].val = out[2].val

\* C20: when removeCycle removes a cycle, the value it writes after "Cycle
\* started at node with value" is the data of the first node of the cycle,
\* the first node a traversal from head reaches twice, which is the value
\* straightforwardDetectCycle wrote.
C20_ReportsCycleStart == [][C20_Step]_vars

\* main is in removeCycle.
Removing == pc \in {"removeCycle", "removeCycleIf", "removeCycleFind"}

C21_Step ==
    (Removing /\ ~Cyclic(next, head)) =>
        /\ pc' \notin {"crashed", "undefined"}
        /\ next' = next
        /\ out' = out

\* C21: on a list with no cycle, also the empty list (head == nullptr) and
\* a single node whose next is nullptr, removeCycle reads through no null
\* pointer, changes no next field and writes no "Cycle removed" line.
C21_NoCycleNoEffect == [][C21_Step]_vars

====
